---- MODULE Spec2Model ----
(***************************************************************************)
(* Model of the appointment bot: src/main.py (Configuration, run, the      *)
(* supervisor loop of __main__) and src/lib/__init__.py (parse_german_date,*)
(* telegram_send_photo).                                                   *)
(*                                                                         *)
(* The portal, the operator and the clock are the environment: what a page *)
(* query returns, what the operator types and how far the clock has moved  *)
(* are chosen with \E from small sets at the step that reads them.         *)
(***************************************************************************)
EXTENDS Integers, Sequences, FiniteSets, TLC

(***************************************************************************)
(* Bounds of the model.                                                    *)
(***************************************************************************)
\* pages of the portal's calendar: the "Vorwaerts" control of the last one is
\* absent or disabled
NumPages == 2
\* invocations of run() after which the supervisor is no longer followed
MaxRuns == 2
\* times the portal presents a challenge within one booking attempt
MaxChallenges == 2
\* seconds of wall clock that pass during one step of the relay's wait
TimeStep == 90

(***************************************************************************)
(* Dates.  datetime.date is modelled by the integer yyyymmdd, whose order  *)
(* is the order of dates; None is NoDate.                                   *)
(***************************************************************************)
NoDate == 0

MkDate(y, m, d) == y * 10000 + m * 100 + d

YearOf(dt) == dt \div 10000
MonthOf(dt) == (dt \div 100) % 100
DayOf(dt) == dt % 100

\* the captions the portal prints above a month table (ASCII transcription:
\* "Maerz" stands for the portal's "M<a-umlaut>rz")
PortalMonthNames ==
    << "Januar", "Februar", "Maerz", "April", "Mai", "Juni",
       "Juli", "August", "September", "Oktober", "November", "Dezember" >>

\* GERMAN_MONTHS_DICT.  The key of the third month is stored in the source as
\* the six characters M, A-tilde, currency sign, r, z: it is not the portal's
\* caption, so the lookup of "Maerz" raises KeyError.
GERMAN_MONTHS_DICT ==
    [ n \in { "Januar", "Februar", "MA~?rz", "April", "Mai", "Juni",
              "Juli", "August", "September", "Oktober", "November", "Dezember" } |->
        CASE n = "Januar" -> 1 [] n = "Februar" -> 2 [] n = "MA~?rz" -> 3
          [] n = "April" -> 4 [] n = "Mai" -> 5 [] n = "Juni" -> 6
          [] n = "Juli" -> 7 [] n = "August" -> 8 [] n = "September" -> 9
          [] n = "Oktober" -> 10 [] n = "November" -> 11 [] n = "Dezember" -> 12 ]

\* parse_german_date raises KeyError for this caption
ParseRaises(month_str) == month_str \notin DOMAIN GERMAN_MONTHS_DICT

parse_german_date(day, month_str, year) ==
    MkDate(year, GERMAN_MONTHS_DICT[month_str], day)

\* days before the first of month m in a year that is no leap year
DaysBeforeMonth(m) ==
    << 0, 31, 59, 90, 120, 151, 181, 212, 243, 273, 304, 334 >>[m]

WeekdayNames ==
    << "monday", "tuesday", "wednesday", "thursday", "friday", "saturday", "sunday" >>

\* parsed_date.strftime("%A").lower(): 2025-01-01 is a Wednesday, and the years
\* of the model (2025..2027) are no leap years
WeekdayOf(dt) ==
    WeekdayNames[((2 + 365 * (YearOf(dt) - 2025)
                     + DaysBeforeMonth(MonthOf(dt)) + DayOf(dt) - 1) % 7) + 1]

(***************************************************************************)
(* Clock times.  A string "HH:MM" is the sequence of its five characters,  *)
(* a digit by its value and the colon by Colon (it sorts after the digits, *)
(* as ':' does after '9'); strings are compared as Python compares them.   *)
(***************************************************************************)
Colon == 10

HHMM(h, m) == << h \div 10, h % 10, Colon, m \div 10, m % 10 >>

RECURSIVE StrLess(_, _)
StrLess(a, b) ==
    IF b = << >> THEN FALSE
    ELSE IF a = << >> THEN TRUE
    ELSE IF Head(a) # Head(b) THEN Head(a) < Head(b)
    ELSE StrLess(Tail(a), Tail(b))

StrLeq(a, b) == a = b \/ StrLess(a, b)

\* time.strftime('%H:%M', time.localtime(int(option_value) / 1000)) in a zone
\* tz seconds east of UTC
OptionTime(ms, tz) ==
    LET local == (ms \div 1000) + tz
    IN  HHMM((local % 86400) \div 3600, (local % 3600) \div 60)

(***************************************************************************)
(* Slot selection (run, the loop over the options of the time select box).  *)
(* An option is [has, ms]: has is FALSE for an option whose value attribute *)
(* is empty, ms is the value of the others, milliseconds since the epoch.   *)
(***************************************************************************)
NoOption == [has |-> FALSE, ms |-> 0]

Opt(ms) == [has |-> TRUE, ms |-> ms]

\* a variant of InWindow with the bounds excluded
InWindowExclusive(option_time, time_slot) ==
    StrLess(time_slot.from, option_time) /\ StrLess(option_time, time_slot.to)

\* time_slot["from"] <= option_time <= time_slot["to"]
InWindow(option_time, time_slot) ==
    StrLeq(time_slot.from, option_time) /\ StrLeq(option_time, time_slot.to)

\* the inner loop over config.weekdays[weekday]
MatchesSome(option_time, time_slots) ==
    \E k \in 1..Len(time_slots) : InWindow(option_time, time_slots[k])

\* the test the loop makes of one option
OptionMatches(option, time_slots, tz) ==
    option.has /\ MatchesSome(OptionTime(option.ms, tz), time_slots)

\* the loop over the options: the index of the option whose value is kept in
\* `value`, 0 when value stays None
RECURSIVE FirstMatchFrom(_, _, _, _)
FirstMatchFrom(i, options, time_slots, tz) ==
    IF i > Len(options) THEN 0
    ELSE IF OptionMatches(options[i], time_slots, tz) THEN i
    ELSE FirstMatchFrom(i + 1, options, time_slots, tz)

\* a variant of FirstMatch without the break: the last match is kept
LastMatch(options, time_slots, tz) ==
    LET hits == { i \in 1..Len(options) : OptionMatches(options[i], time_slots, tz) }
    IN  IF hits = {} THEN 0 ELSE CHOOSE i \in hits : \A j \in hits : j <= i

FirstMatch(options, time_slots, tz) == FirstMatchFrom(1, options, time_slots, tz)

\* config.weekdays[weekday] raises KeyError: it is evaluated for the first
\* option that has a value
SelectRaises(options, weekdays, weekday) ==
    weekday \notin DOMAIN weekdays /\ \E i \in 1..Len(options) : options[i].has

(***************************************************************************)
(* Configuration.                                                          *)
(***************************************************************************)
\* the weekdays of config_schema
SchemaWeekdays ==
    { "monday", "tuesday", "wednesday", "thursday", "friday", "saturday" }

Window(from, to) == [from |-> from, to |-> to]

FullDay == << Window(HHMM(0, 0), HHMM(23, 59)) >>

\* parse_config: the windows of each weekday of the file
ParseWeekdays(available, unavailable) ==
    [ weekday \in DOMAIN available |->
        IF available[weekday] = << >> /\ weekday \notin unavailable
        THEN FullDay
        ELSE available[weekday] ]

\* Configuration.__init__ followed by parse_config (from_file) or by the
\* prompts, which set neither weekdays nor dates
Configuration(args, from_file, file) ==
    LET earliest0 == args.earliest_date
        latest0 == args.earliest_date
    IN  [ earliest_date |->
              IF from_file /\ file.earliest # NoDate THEN file.earliest ELSE earliest0,
          latest_date |->
              IF from_file /\ file.latest # NoDate THEN file.latest ELSE latest0,
          exclude_dates |-> IF from_file THEN file.exclude ELSE {},
          weekdays |->
              IF from_file THEN ParseWeekdays(file.available, file.unavailable)
              ELSE << >>,
          periodic |-> args.periodic ]

(***************************************************************************)
(* The environment's inputs.                                               *)
(***************************************************************************)
\* Python's None where a string is expected
None == "<None>"

\* (year, month) of the first month table of the first page
StartMonths == { << 2026, 2 >> }

\* the local zone, seconds east of UTC
PortalZone == 60 * 60

\* the value the portal gives the option of the slot at h:m local time
Stamp(h, m) == Opt(24 * 3600 * 1000 + ((h * 60 + m) * 60 - PortalZone) * 1000)

\* what the time select box of a day offers
OptionLists ==
    { << NoOption, Stamp(8, 30), Stamp(10, 15) >>,
      << NoOption, Stamp(13, 0) >> }

\* the day numbers the portal marks free
PortalDays == { 3, 16 }

\* the free days of one month table, in calendar order
PanelContents ==
    LET Days == { [day |-> d, options |-> o] : d \in PortalDays, o \in OptionLists }
    IN  { << >> }
        \cup { << x >> : x \in Days }
        \cup UNION { { << x, y >> : y \in { z \in Days : z.day > x.day } } : x \in Days }

\* what the operator types
Replies == { "7F3Q", "K9XA" }

\* the month table `table` of page `page` shows the month this many after the start
MonthsAfterStart(page, table) == 2 * page + table

PanelYear(st, page, table) ==
    st[1] + (st[2] - 1 + MonthsAfterStart(page, table)) \div 12

PanelMonth(st, page, table) ==
    ((st[2] - 1 + MonthsAfterStart(page, table)) % 12) + 1

\* the weekday sections of a configuration file
FileWeekdays ==
    { [available |-> [w \in SchemaWeekdays |-> << >>], unavailable |-> {}],
      [available |->
           [w \in SchemaWeekdays |->
               CASE w = "tuesday" -> << Window(HHMM(9, 0), HHMM(12, 0)) >>
                 [] w = "monday" -> << Window(HHMM(8, 0), HHMM(8, 30)),
                                       Window(HHMM(14, 0), HHMM(16, 0)) >>
                 [] OTHER -> << >>],
       unavailable |-> { "wednesday", "thursday", "friday", "saturday", "sunday" }] }

\* the dates a user gives: the 10th of the second month, the 10th of the third,
\* and the 3rd of the first
EarliestInputs(st) == { NoDate, MkDate(PanelYear(st, 0, 1), PanelMonth(st, 0, 1), 10) }
LatestInputs(st) == { NoDate, MkDate(PanelYear(st, 1, 0), PanelMonth(st, 1, 0), 10) }
ExcludeInputs(st) == { {}, { MkDate(PanelYear(st, 0, 0), PanelMonth(st, 0, 0), 3) } }

\* argparse namespaces: --tries, --periodic, --disable-booking, --earliest-date,
\* --latest-date
ArgsInputs(st) ==
    [ earliest_date : EarliestInputs(st), latest_date : LatestInputs(st),
      periodic : BOOLEAN, tries : { 0, 1 }, disable_booking : BOOLEAN ]

NoFile ==
    [ earliest |-> NoDate, latest |-> NoDate, exclude |-> {},
      available |-> << >>, unavailable |-> {} ]

FileInputs(st) ==
    { [ earliest |-> e, latest |-> l, exclude |-> x,
        available |-> w.available, unavailable |-> w.unavailable ] :
        e \in EarliestInputs(st), l \in LatestInputs(st),
        x \in ExcludeInputs(st), w \in FileWeekdays }

(***************************************************************************)
(* State.                                                                  *)
(***************************************************************************)
VARIABLES
    \* inputs, fixed at process start
    args,            \* the argparse namespace
    config,          \* the Configuration object
    ENABLE_TELEGRAM, \* lib: the environment's ENABLE_TELEGRAM == "1"
    start,           \* the portal: (year, month) of the first month table
    \* __main__
    supPc,           \* "call", "running", "returned", "sleeping", "done", "crashed",
                     \* "interrupted"
    tries,           \* the local `tries` of the periodic loop
    runs,            \* invocations of run() so far
    result,          \* what the last run() returned
    \* run(): the thread that drives the page
    pc,              \* "idle", "scan", "day", "select", "challenge", "wait",
                     \* "confirm", "paginate", "cleanup", "crashed", "interrupted"
    page,            \* times "Vorwaerts" was clicked in this run
    table,           \* 0: monthtable0, 1: monthtable1
    free_days,       \* the free days of the month table being scanned
    idx,             \* position of the loop over free_days
    parsed_date,     \* parsed_date of the day last parsed
    value,           \* the option value selected, 0 while None
    success,         \* the local `success`
    continue_button, \* what the last query of the "Vorwaerts" button found
    challenges,      \* challenges the portal has presented in this attempt
    browserOpen,     \* the browser of this run is open
    loopRunning,     \* the event-loop thread of this run is running
    \* telegram_send_photo, on the event-loop thread
    relayPc,         \* "idle", "scheduled", "polling", "done"
    sessionOpen,     \* the telegram application is started
    listening,       \* the updater is polling
    captcha_answer,  \* the nonlocal captcha_answer
    elapsed,         \* time.time() - start_time, seconds
    future,          \* the future's result
    \* history of the current run, for the properties
    attempts,        \* time options selected and submitted
    scanned,         \* month tables scanned
    verdict,         \* [date, what]: the day last evaluated and what became of it
    lateSeen,        \* a free day after latest_date was met
    evalAfterLate,   \* the date of a free day was parsed and filtered after lateSeen
    eligibleSeen,    \* a month table scanned held a day the rules allow
    outcome,         \* "none", "Booked", "Failed", "NotFound", "Error", "Interrupted"
    \* history of the booking attempt of the current run
    reply,           \* the text the operator sent to the session last opened
    filled,          \* the text last filled into #captcha_userinput
    unanswered,      \* future.result() has returned no answer
    confirmed,       \* button#action_confirm_next was clicked
    \* the telegram applications started and not stopped
    openSessions

inputVars == << args, config, ENABLE_TELEGRAM, start >>
supVars == << supPc, tries, runs, result >>
scanVars == << page, table, free_days, idx, parsed_date >>
bookVars == << value, success, challenges >>
pageVars == << continue_button, scanned >>
resVars == << browserOpen, loopRunning >>
relayVars == << relayPc, sessionOpen, listening, captcha_answer, elapsed, future >>
histVars == << attempts, verdict, lateSeen, evalAfterLate, eligibleSeen, outcome >>
bookHist == << reply, filled, unanswered, confirmed, openSessions >>

vars ==
    << inputVars, supVars, pc, scanVars, bookVars, pageVars, resVars, relayVars, histVars,
       bookHist >>

\* 4 * 60 + 30 seconds
RelayTimeout == 4 * 60 + 30

NoVerdict == [date |-> NoDate, what |-> "none"]

\* the date the portal means by day number `day` of the table being scanned
TrueDate(day) == MkDate(PanelYear(start, page, table), PanelMonth(start, page, table), day)

month_str == PortalMonthNames[PanelMonth(start, page, table)]

year == PanelYear(start, page, table)

(***************************************************************************)
(* What the rules of the configuration allow (the properties' yardstick,   *)
(* in minutes of the day, not the program's string comparison).            *)
(***************************************************************************)
MinuteOfDay(ms, tz) == (((ms \div 1000) + tz) % 86400) \div 60

WindowMinute(t) == (t[1] * 10 + t[2]) * 60 + t[4] * 10 + t[5]

TimeAllowed(option, time_slots, tz) ==
    /\ option.has
    /\ \E k \in 1..Len(time_slots) :
          /\ WindowMinute(time_slots[k].from) <= MinuteOfDay(option.ms, tz)
          /\ MinuteOfDay(option.ms, tz) <= WindowMinute(time_slots[k].to)

WindowsOf(cfg, dt) ==
    IF WeekdayOf(dt) \in DOMAIN cfg.weekdays THEN cfg.weekdays[WeekdayOf(dt)] ELSE << >>

InRange(cfg, dt) ==
    /\ cfg.earliest_date = NoDate \/ dt >= cfg.earliest_date
    /\ cfg.latest_date = NoDate \/ dt <= cfg.latest_date

DayAllowed(cfg, dt, options) ==
    /\ InRange(cfg, dt)
    /\ dt \notin cfg.exclude_dates
    /\ \E i \in 1..Len(options) : TimeAllowed(options[i], WindowsOf(cfg, dt), PortalZone)

(***************************************************************************)
(* Initial states: the process has parsed its arguments and built the      *)
(* Configuration; run() has not been called yet.                           *)
(***************************************************************************)
\* the runs of the process that the model follows: the dates come from the
\* command line or from the file, the windows from the file
Inputs(st) ==
    { [args |-> a, from_file |-> FALSE, file |-> NoFile] : a \in ArgsInputs(st) }
    \cup { [args |-> a, from_file |-> TRUE, file |-> f] :
             a \in { b \in ArgsInputs(st) :
                       b.earliest_date = NoDate /\ b.latest_date = NoDate },
             f \in FileInputs(st) }

Init ==
    /\ start \in StartMonths
    /\ \E in \in { i \in Inputs(start) : i.args.periodic \/ i.args.tries = 0 } :
          /\ args = in.args
          /\ config = Configuration(in.args, in.from_file, in.file)
    /\ ENABLE_TELEGRAM \in BOOLEAN
    /\ supPc = "call" /\ tries = 0 /\ runs = 0 /\ result = FALSE
    /\ pc = "idle" /\ page = 0 /\ table = 0 /\ free_days = << >> /\ idx = 1
    /\ parsed_date = NoDate /\ value = 0 /\ success = FALSE /\ challenges = 0
    /\ continue_button = "none" /\ scanned = 0
    /\ browserOpen = FALSE /\ loopRunning = FALSE
    /\ relayPc = "idle" /\ sessionOpen = FALSE /\ listening = FALSE
    /\ captcha_answer = None /\ elapsed = 0 /\ future = None
    /\ attempts = 0 /\ verdict = NoVerdict /\ lateSeen = FALSE
    /\ evalAfterLate = FALSE /\ eligibleSeen = FALSE /\ outcome = "none"
    /\ reply = None /\ filled = None /\ unanswered = FALSE /\ confirmed = FALSE
    /\ openSessions = 0

(***************************************************************************)
(* __main__: the supervisor.                                               *)
(***************************************************************************)
\* run(args, config) is called: the event loop thread is started, the browser
\* is launched and the page is driven to the calendar
SupInvoke ==
    /\ supPc = "call"
    /\ runs < MaxRuns
    /\ supPc' = "running"
    /\ runs' = runs + 1
    /\ pc' = "scan" /\ page' = 0 /\ table' = 0 /\ free_days' = << >> /\ idx' = 1
    /\ parsed_date' = NoDate /\ value' = 0 /\ success' = FALSE /\ challenges' = 0
    /\ continue_button' = "none" /\ scanned' = 0
    /\ browserOpen' = TRUE /\ loopRunning' = TRUE
    /\ attempts' = 0 /\ verdict' = NoVerdict /\ lateSeen' = FALSE
    /\ evalAfterLate' = FALSE /\ eligibleSeen' = FALSE /\ outcome' = "none"
    /\ reply' = None /\ filled' = None /\ unanswered' = FALSE /\ confirmed' = FALSE
    /\ UNCHANGED << inputVars, tries, result, relayVars, openSessions >>

\* the condition of `while not run(args, config) and (...)`
RetryCondition == ~result /\ (args.tries = 0 \/ tries < args.tries)

\* a variant of SupAfterRun that takes the periodic branch in either mode
SupAfterRunAlwaysLoops ==
    /\ supPc = "returned"
    /\ IF RetryCondition
       THEN supPc' = "sleeping" /\ tries' = tries + 1
       ELSE supPc' = "done" /\ tries' = tries
    /\ UNCHANGED << inputVars, runs, result, pc, scanVars, bookVars, pageVars, resVars,
                    relayVars, histVars, bookHist >>

\* run() has returned: the periodic loop tests its condition, the other branch ends
SupAfterRun ==
    /\ supPc = "returned"
    /\ IF config.periodic /\ RetryCondition
       THEN supPc' = "sleeping" /\ tries' = tries + 1
       ELSE supPc' = "done" /\ tries' = tries
    /\ UNCHANGED << inputVars, runs, result, pc, scanVars, bookVars, pageVars, resVars,
                    relayVars, histVars, bookHist >>

\* time.sleep(config.minutes * 60 + config.seconds) is over
SupWake ==
    /\ supPc = "sleeping"
    /\ supPc' = "call"
    /\ UNCHANGED << inputVars, tries, runs, result, pc, scanVars, bookVars, pageVars, resVars,
                    relayVars, histVars, bookHist >>

(***************************************************************************)
(* run(): the traversal of the calendar.                                   *)
(***************************************************************************)
\* an exception leaves run(): the `with sync_playwright()` block stops the
\* driver, the lines after it are skipped, and __main__, which catches
\* KeyboardInterrupt only, ends with the traceback
Raise ==
    /\ pc' = "crashed"
    /\ supPc' = "crashed"
    /\ outcome' = "Error"
    /\ browserOpen' = FALSE
    /\ UNCHANGED << inputVars, tries, runs, result, bookVars, pageVars, loopRunning, relayVars,
                    attempts, lateSeen, eligibleSeen, bookHist >>

\* the loop over free_days is left (at its end or by break) with success
\* False: the next month table, or the pagination after the second
PanelDone ==
    /\ free_days' = << >>
    /\ idx' = 1
    /\ IF table = 0
       THEN table' = 1 /\ pc' = "scan"
       ELSE table' = table /\ pc' = "paginate"

\* `continue` in the loop over free_days
ContinueDay ==
    IF idx < Len(free_days)
    THEN idx' = idx + 1 /\ pc' = "day" /\ UNCHANGED << table, free_days >>
    ELSE PanelDone

\* table#monthtableN is queried, its caption read and its free days listed
ScanPanel ==
    /\ pc = "scan"
    /\ \E content \in PanelContents :
          /\ eligibleSeen' =
                (eligibleSeen \/ \E i \in 1..Len(content) :
                                    DayAllowed(config, TrueDate(content[i].day),
                                               content[i].options))
          /\ IF content = << >>
             THEN PanelDone
             ELSE free_days' = content /\ idx' = 1 /\ pc' = "day" /\ table' = table
    /\ scanned' = scanned + 1
    /\ UNCHANGED << inputVars, supVars, page, parsed_date, bookVars, continue_button,
                    resVars, relayVars, attempts, verdict, lateSeen, evalAfterLate,
                    outcome, bookHist >>

\* a variant of Filter without the test of latest_date
FilterWithoutLatest(cfg, dry, dt) ==
    IF cfg.earliest_date # NoDate /\ dt < cfg.earliest_date THEN "early"
    ELSE IF dt \in cfg.exclude_dates THEN "excluded"
    ELSE IF dry THEN "dry"
    ELSE "clicked"

\* a variant of Filter without the test of exclude_dates
FilterWithoutExclusion(cfg, dry, dt) ==
    IF cfg.earliest_date # NoDate /\ dt < cfg.earliest_date THEN "early"
    ELSE IF cfg.latest_date # NoDate /\ dt > cfg.latest_date THEN "late"
    ELSE IF dry THEN "dry"
    ELSE "clicked"

\* what the date filters and the dry-run switch make of a parsed date
Filter(cfg, dry, dt) ==
    IF cfg.earliest_date # NoDate /\ dt < cfg.earliest_date THEN "early"
    ELSE IF cfg.latest_date # NoDate /\ dt > cfg.latest_date THEN "late"
    ELSE IF dt \in cfg.exclude_dates THEN "excluded"
    ELSE IF dry THEN "dry"
    ELSE "clicked"

\* one pass of the loop over free_days, up to the click on the day
EvaluateDay ==
    /\ pc = "day"
    /\ LET d == free_days[idx]
       IN  \E div \in BOOLEAN :
             IF ~div \/ ParseRaises(month_str)
             THEN /\ verdict' = [date |-> TrueDate(d.day),
                                 what |-> IF ~div THEN "no_day" ELSE "key_error"]
                  /\ Raise
                  /\ UNCHANGED << scanVars, evalAfterLate >>
             ELSE LET dt == parse_german_date(d.day, month_str, year)
                      what == Filter(config, args.disable_booking, dt)
                  IN  /\ parsed_date' = dt
                      /\ verdict' = [date |-> TrueDate(d.day), what |-> what]
                      /\ evalAfterLate' = (evalAfterLate \/ lateSeen)
                      /\ lateSeen' = (lateSeen \/ what = "late")
                      /\ CASE what \in { "early", "dry" } -> ContinueDay
                           [] what \in { "late", "excluded" } -> PanelDone
                           [] OTHER -> pc' = "select" /\ UNCHANGED << table, free_days, idx >>
                      /\ UNCHANGED << inputVars, supVars, page, bookVars, pageVars,
                                      resVars, relayVars, attempts, eligibleSeen,
                                      outcome, bookHist >>

\* the day was clicked: the options of the time select box are tried in order;
\* with a value the time is selected, "Ok" clicked and the personal data entered
SelectSlot ==
    /\ pc = "select"
    /\ LET options == free_days[idx].options
           weekday == WeekdayOf(parsed_date)
       IN  IF SelectRaises(options, config.weekdays, weekday)
           THEN /\ verdict' = [verdict EXCEPT !.what = "weekday_error"]
                /\ Raise
                /\ UNCHANGED << scanVars, evalAfterLate >>
           ELSE LET time_slots == IF weekday \in DOMAIN config.weekdays
                                  THEN config.weekdays[weekday] ELSE << >>
                    i == FirstMatch(options, time_slots, PortalZone)
                IN  /\ IF i = 0
                       THEN /\ verdict' = [verdict EXCEPT !.what = "no_slot"]
                            /\ ContinueDay
                            /\ UNCHANGED << value, attempts, challenges >>
                       ELSE /\ verdict' = [verdict EXCEPT !.what = "selected"]
                            /\ value' = options[i].ms
                            /\ attempts' = attempts + 1
                            /\ challenges' = 0
                            /\ pc' = "challenge"
                            /\ UNCHANGED << table, free_days, idx >>
                    /\ UNCHANGED << inputVars, supVars, page, parsed_date, success,
                                    pageVars, resVars, relayVars, lateSeen,
                                    evalAfterLate, eligibleSeen, outcome, bookHist >>

\* a variant of ButtonUsable without the test of the `disabled` attribute
ButtonFound(button) == button # "absent"

\* the button was found and has no `disabled` attribute
ButtonUsable(button) == button = "enabled"

\* `if not success:` after both month tables: the "Vorwaerts" button is
\* queried; it is clicked, or the loop over the pages is left
Paginate ==
    /\ pc = "paginate"
    /\ \E button \in { "absent", "disabled", "enabled" } :
          /\ button = "enabled" => page + 1 < NumPages
          /\ continue_button' = button
          /\ IF ButtonUsable(button)
             THEN /\ page' = page + 1 /\ table' = 0 /\ pc' = "scan"
                  /\ UNCHANGED outcome
             ELSE /\ pc' = "cleanup" /\ outcome' = "NotFound"
                  /\ UNCHANGED << page, table >>
    /\ UNCHANGED << inputVars, supVars, free_days, idx, parsed_date, bookVars, scanned,
                    resVars, relayVars, attempts, verdict, lateSeen, evalAfterLate,
                    eligibleSeen, bookHist >>

\* browser.close(), p.stop(), the event loop is stopped and joined; run returns
Cleanup ==
    /\ pc = "cleanup"
    /\ pc' = "idle"
    /\ browserOpen' = FALSE
    /\ loopRunning' = FALSE
    /\ supPc' = "returned"
    /\ result' = success
    /\ UNCHANGED << inputVars, tries, runs, scanVars, bookVars, pageVars, relayVars,
                    histVars, bookHist >>

(***************************************************************************)
(* run(): the booking of the selected time.                                *)
(***************************************************************************)
\* a variant of Challenge that does not wait for future.result()
ChallengeWithoutWait ==
    /\ pc = "challenge"
    /\ \E image \in BOOLEAN :
          /\ image => challenges < MaxChallenges
          /\ IF image
             THEN /\ challenges' = challenges + 1
                  /\ relayPc' = "scheduled"
                  /\ future' = None
                  /\ reply' = None
                  /\ pc' = "challenge"
             ELSE /\ pc' = "confirm"
                  /\ UNCHANGED << challenges, relayPc, future, reply >>
    /\ UNCHANGED << inputVars, supVars, scanVars, value, success, pageVars, resVars,
                    sessionOpen, listening, captcha_answer, elapsed, histVars,
                    filled, unanswered, confirmed, openSessions >>

\* `while page.query_selector("#cssconstants_captcha_image")`: with the image
\* on the page its screenshot is handed to telegram_send_photo on the event
\* loop and future.result() is awaited; without it the loop is left
Challenge ==
    /\ pc = "challenge"
    /\ \E image \in BOOLEAN :
          /\ image => challenges < MaxChallenges
          /\ IF image
             THEN /\ challenges' = challenges + 1
                  /\ relayPc' = "scheduled"
                  /\ future' = None
                  /\ reply' = None
                  /\ pc' = "wait"
             ELSE /\ pc' = "confirm"
                  /\ UNCHANGED << challenges, relayPc, future, reply >>
    /\ UNCHANGED << inputVars, supVars, scanVars, value, success, pageVars, resVars,
                    sessionOpen, listening, captcha_answer, elapsed, histVars,
                    filled, unanswered, confirmed, openSessions >>

\* a variant of Resume that goes on before the future is resolved
ResumeEarly ==
    /\ pc = "wait"
    /\ relayPc' = IF relayPc = "done" THEN "idle" ELSE relayPc
    /\ captcha_answer' = captcha_answer
    /\ elapsed' = elapsed
    /\ pc' = IF future = None THEN "confirm" ELSE "challenge"
    /\ filled' = IF future = None THEN filled ELSE future
    /\ unanswered' = (unanswered \/ future = None)
    /\ UNCHANGED << inputVars, supVars, scanVars, bookVars, pageVars, resVars,
                    sessionOpen, listening, future, histVars, reply, confirmed,
                    openSessions >>

\* future.result() returns: without an answer the loop is left by break, with
\* one it is filled in and button#action_userdata_next is clicked
Resume ==
    /\ pc = "wait"
    /\ relayPc = "done"
    /\ relayPc' = "idle"
    /\ captcha_answer' = None
    /\ elapsed' = 0
    /\ pc' = IF future = None THEN "confirm" ELSE "challenge"
    /\ filled' = IF future = None THEN filled ELSE future
    /\ unanswered' = (unanswered \/ future = None)
    /\ UNCHANGED << inputVars, supVars, scanVars, bookVars, pageVars, resVars,
                    sessionOpen, listening, future, histVars, reply, confirmed,
                    openSessions >>

\* a variant of BookingFailed that leaves success False: the scan goes on
BookingFailedScanGoesOn ==
    /\ outcome' = "Failed"
    /\ success' = FALSE
    /\ PanelDone

\* the header is not "Terminvereinbarung": "Booking appointment failed",
\* success = True and break
BookingFailed ==
    /\ outcome' = "Failed"
    /\ success' = TRUE
    /\ pc' = "cleanup"
    /\ UNCHANGED << table, free_days, idx >>

\* the booking went through: the numbers are read, the screenshot is saved,
\* success = True and break
BookingDone ==
    /\ outcome' = "Booked"
    /\ success' = TRUE
    /\ pc' = "cleanup"
    /\ UNCHANGED << table, free_days, idx >>

\* button#action_confirm_next is queried and clicked, then the page header read
Confirm ==
    /\ pc = "confirm"
    /\ \E button \in BOOLEAN :
          IF ~button
          THEN Raise /\ UNCHANGED << scanVars, verdict, evalAfterLate >>
          ELSE \E header \in { "Terminvereinbarung", "other" } :
                  /\ IF header # "Terminvereinbarung" THEN BookingFailed ELSE BookingDone
                  /\ confirmed' = TRUE
                  /\ UNCHANGED << inputVars, supVars, page, parsed_date, value,
                                  challenges, pageVars, resVars, relayVars, attempts,
                                  verdict, lateSeen, evalAfterLate, eligibleSeen,
                                  reply, filled, unanswered, openSessions >>

\* button#action_userdata_next was clicked in this attempt: its only click
\* follows the fill of #captcha_userinput in the body of the challenge loop
userdata_next_clicked == filled # None

(***************************************************************************)
(* telegram_send_photo, a coroutine on the event-loop thread.              *)
(***************************************************************************)
\* the process has not ended: the event-loop thread is a daemon thread and
\* ends with the process
ProcessAlive == supPc \notin { "done", "crashed", "interrupted" }

\* up to the wait: without ENABLE_TELEGRAM it returns None at once, otherwise
\* the application is started, the photo sent, the handler added and polling
\* started
RelayBegin ==
    /\ relayPc = "scheduled"
    /\ loopRunning
    /\ ProcessAlive
    /\ IF ~ENABLE_TELEGRAM
       THEN /\ future' = None
            /\ relayPc' = "done"
            /\ UNCHANGED << sessionOpen, listening, captcha_answer, elapsed, openSessions >>
       ELSE /\ sessionOpen' = TRUE
            /\ openSessions' = openSessions + 1
            /\ listening' = TRUE
            /\ captcha_answer' = None
            /\ elapsed' = 0
            /\ relayPc' = "polling"
            /\ UNCHANGED future
    /\ UNCHANGED << inputVars, supVars, pc, scanVars, bookVars, pageVars, resVars, histVars,
                    reply, filled, unanswered, confirmed >>

\* handle_message: a text message of the operator arrives
OperatorReply ==
    /\ relayPc = "polling"
    /\ ProcessAlive
    /\ listening
    /\ \E text \in Replies : captcha_answer' = text /\ reply' = text
    /\ listening' = FALSE
    /\ sessionOpen' = FALSE
    /\ openSessions' = openSessions - 1
    /\ UNCHANGED << inputVars, supVars, pc, scanVars, bookVars, pageVars, resVars, relayPc,
                    elapsed, future, histVars, filled, unanswered, confirmed >>

\* the condition of the waiting loop
StillWaiting == captcha_answer = None /\ elapsed < RelayTimeout

\* one `await asyncio.sleep(0.5)` in which the clock passes TimeStep seconds
RelaySleep ==
    /\ relayPc = "polling"
    /\ ProcessAlive
    /\ StillWaiting
    /\ elapsed' = elapsed + TimeStep
    /\ UNCHANGED << inputVars, supVars, pc, scanVars, bookVars, pageVars, resVars, relayPc,
                    sessionOpen, listening, captcha_answer, future, histVars, bookHist >>

\* a variant of RelayReturn that does not stop the application on a timeout
RelayReturnLeavesSession ==
    /\ relayPc = "polling"
    /\ ProcessAlive
    /\ ~StillWaiting
    /\ future' = captcha_answer
    /\ relayPc' = "done"
    /\ UNCHANGED << inputVars, supVars, pc, scanVars, bookVars, pageVars, resVars,
                    listening, sessionOpen, captcha_answer, elapsed, histVars, bookHist >>

\* a variant of RelayReturn that returns None whatever was received
RelayReturnsNothing ==
    /\ relayPc = "polling"
    /\ ProcessAlive
    /\ ~StillWaiting
    /\ IF captcha_answer = None
       THEN listening' = FALSE /\ sessionOpen' = FALSE /\ openSessions' = openSessions - 1
       ELSE UNCHANGED << listening, sessionOpen, openSessions >>
    /\ future' = None
    /\ relayPc' = "done"
    /\ UNCHANGED << inputVars, supVars, pc, scanVars, bookVars, pageVars, resVars,
                    captcha_answer, elapsed, histVars, reply, filled, unanswered,
                    confirmed >>

\* the waiting loop is left: without an answer the application is stopped;
\* captcha_answer is returned
RelayReturn ==
    /\ relayPc = "polling"
    /\ ProcessAlive
    /\ ~StillWaiting
    /\ IF captcha_answer = None
       THEN listening' = FALSE /\ sessionOpen' = FALSE /\ openSessions' = openSessions - 1
       ELSE UNCHANGED << listening, sessionOpen, openSessions >>
    /\ future' = captcha_answer
    /\ relayPc' = "done"
    /\ UNCHANGED << inputVars, supVars, pc, scanVars, bookVars, pageVars, resVars,
                    captcha_answer, elapsed, histVars, reply, filled, unanswered,
                    confirmed >>

(***************************************************************************)
(* KeyboardInterrupt.                                                      *)
(***************************************************************************)
\* a variant of Interrupt in which __main__ does not catch the exception
InterruptUncaught ==
    /\ ProcessAlive
    /\ supPc' = "crashed"
    /\ outcome' = "Interrupted"
    /\ IF supPc = "running"
       THEN pc' = "interrupted" /\ browserOpen' = FALSE
       ELSE UNCHANGED << pc, browserOpen >>
    /\ UNCHANGED << inputVars, tries, runs, result, scanVars, bookVars, pageVars,
                    loopRunning, relayVars, attempts, verdict, lateSeen, evalAfterLate,
                    eligibleSeen, bookHist >>

\* KeyboardInterrupt is raised in the main thread, inside run() (in a page
\* call or in future.result()), in time.sleep() or between the two: it leaves
\* run() through the `with` block, is caught by `except KeyboardInterrupt` and
\* the process ends
Interrupt ==
    /\ ProcessAlive
    /\ supPc' = "interrupted"
    /\ outcome' = "Interrupted"
    /\ IF supPc = "running"
       THEN pc' = "interrupted" /\ browserOpen' = FALSE
       ELSE UNCHANGED << pc, browserOpen >>
    /\ UNCHANGED << inputVars, tries, runs, result, scanVars, bookVars, pageVars,
                    loopRunning, relayVars, attempts, verdict, lateSeen, evalAfterLate,
                    eligibleSeen, bookHist >>

(***************************************************************************)
(* Specifications.                                                         *)
(***************************************************************************)
Next ==
    \/ SupInvoke
    \/ SupAfterRun
    \/ SupWake
    \/ ScanPanel
    \/ EvaluateDay
    \/ SelectSlot
    \/ Challenge
    \/ Resume
    \/ Confirm
    \/ Paginate
    \/ Cleanup
    \/ RelayBegin
    \/ OperatorReply
    \/ RelaySleep
    \/ RelayReturn

Spec == Init /\ [][Next]_vars

\* the process with a user who may press Ctrl-C
NextInt ==
    \/ Next
    \/ Interrupt

SpecInt == Init /\ [][NextInt]_vars

(***************************************************************************)
(* The slot selection on its own: run() has clicked a free day (Tuesday    *)
(* 2026-02-03) and is about to read the time select box; the options and   *)
(* the windows range over more cases than the calendar of Spec offers.     *)
(***************************************************************************)
\* options of the select box: up to MaxOptions of these
MaxOptions == 3

SelectOptions ==
    { NoOption, Stamp(8, 30), Stamp(9, 0), Stamp(10, 15), Stamp(12, 0), Stamp(12, 1) }

SelectOptionLists == UNION { [1..n -> SelectOptions] : n \in 0..MaxOptions }

SelectWindowLists ==
    { << >>,
      << Window(HHMM(9, 0), HHMM(12, 0)) >>,
      << Window(HHMM(12, 1), HHMM(24, 0)) >>,
      << Window(HHMM(12, 0), HHMM(9, 0)) >>,
      << Window(HHMM(8, 30), HHMM(8, 30)), Window(HHMM(12, 0), HHMM(12, 1)) >> }

InitSelect ==
    /\ start \in StartMonths
    /\ args = [ earliest_date |-> NoDate, latest_date |-> NoDate, periodic |-> FALSE,
                tries |-> 0, disable_booking |-> FALSE ]
    /\ \E time_slots \in SelectWindowLists, keyed \in BOOLEAN :
          config = [ earliest_date |-> NoDate, latest_date |-> NoDate,
                     exclude_dates |-> {}, periodic |-> FALSE,
                     weekdays |-> IF keyed THEN [w \in SchemaWeekdays |-> time_slots]
                                  ELSE << >> ]
    /\ ENABLE_TELEGRAM = TRUE
    /\ supPc = "running" /\ tries = 0 /\ runs = 1 /\ result = FALSE
    /\ pc = "select" /\ page = 0 /\ table = 0 /\ idx = 1
    /\ \E options \in SelectOptionLists : free_days = << [day |-> 3, options |-> options] >>
    /\ parsed_date = MkDate(2026, 2, 3)
    /\ value = 0 /\ success = FALSE /\ challenges = 0
    /\ continue_button = "none" /\ scanned = 0
    /\ browserOpen = TRUE /\ loopRunning = TRUE
    /\ relayPc = "idle" /\ sessionOpen = FALSE /\ listening = FALSE
    /\ captcha_answer = None /\ elapsed = 0 /\ future = None
    /\ attempts = 0 /\ verdict = [date |-> MkDate(2026, 2, 3), what |-> "clicked"]
    /\ lateSeen = FALSE /\ evalAfterLate = FALSE /\ eligibleSeen = FALSE
    /\ outcome = "none"
    /\ reply = None /\ filled = None /\ unanswered = FALSE /\ confirmed = FALSE
    /\ openSessions = 0

NextSelect == SelectSlot

SpecSelect == InitSelect /\ [][NextSelect]_vars

\* the event loop thread runs the coroutine on, the clock moves, and the
\* thread blocked in future.result() is woken once the future is resolved
Fairness ==
    /\ WF_vars(RelayBegin)
    /\ WF_vars(RelaySleep)
    /\ WF_vars(RelayReturn)
    /\ WF_vars(Resume)

FairSpec == Spec /\ Fairness

\* the steps of the thread that executes run()
RunStep ==
    \/ ScanPanel
    \/ EvaluateDay
    \/ SelectSlot
    \/ Challenge
    \/ Resume
    \/ Confirm
    \/ Paginate
    \/ Cleanup

\* the thread of run() is scheduled as well: a page call returns or raises
FairRunSpec == Spec /\ Fairness /\ WF_vars(RunStep)

(***************************************************************************)
(* Properties.                                                             *)
(***************************************************************************)
\* the windows run() reads for the day it has clicked
ClickedWindows == WindowsOf(config, parsed_date)

\* the options of the day run() is at
OfferedOptions == free_days[idx].options

\* the verdicts of a day that was clicked
ClickedVerdicts == { "clicked", "no_slot", "selected", "weekday_error" }

\* C1: a run of run() selects and submits a time at most once, and from the
\* selection on it evaluates no day and queries no pagination control: it is
\* in the booking steps, in the cleanup, back in the supervisor, or has raised
C1_AtMostOneAttempt ==
    /\ attempts <= 1
    /\ attempts = 1 =>
          pc \in { "challenge", "wait", "confirm", "cleanup", "idle", "crashed" }

C1_Witness == attempts = 1 /\ outcome = "Failed" /\ supPc = "returned"

\* C2: the selection step keeps a value exactly when some offered option lies,
\* in minutes of the day, between from and to of a window of the weekday, the
\* bounds included; and the value it keeps is such an option
C2_InclusiveWindows ==
    [][ (pc = "select" /\ pc' # "crashed") =>
          /\ (pc' = "challenge") <=>
                \E i \in 1..Len(OfferedOptions) :
                    TimeAllowed(OfferedOptions[i], ClickedWindows, PortalZone)
          /\ pc' = "challenge" => TimeAllowed(Opt(value'), ClickedWindows, PortalZone)
      ]_vars

\* an option at 09:00 was selected for the window 09:00-12:00
C2_Witness ==
    /\ pc = "challenge"
    /\ ClickedWindows = << Window(HHMM(9, 0), HHMM(12, 0)) >>
    /\ MinuteOfDay(value, PortalZone) = 9 * 60

\* C3: the value kept is that of the first offered option that lies in a
\* window: every option before it lies in none
C3_FirstMatchWins ==
    [][ (pc = "select" /\ pc' = "challenge") =>
          \E i \in 1..Len(OfferedOptions) :
              /\ OfferedOptions[i] = Opt(value')
              /\ TimeAllowed(OfferedOptions[i], ClickedWindows, PortalZone)
              /\ \A j \in 1..(i - 1) :
                    ~TimeAllowed(OfferedOptions[j], ClickedWindows, PortalZone)
      ]_vars

\* options 08:30, 10:15 (and a later match, 12:00) with the window 09:00-12:00:
\* 10:15 was selected
C3_Witness ==
    /\ pc = "challenge"
    /\ ClickedWindows = << Window(HHMM(9, 0), HHMM(12, 0)) >>
    /\ OfferedOptions = << Stamp(8, 30), Stamp(10, 15), Stamp(12, 0) >>
    /\ Opt(value) = Stamp(10, 15)

\* C4: with latest_date set, the day for which a time was selected is not
\* after it
C4_NoAttemptAfterLatest ==
    (verdict.what = "selected" /\ config.latest_date # NoDate) =>
        verdict.date <= config.latest_date

\* with latest_date set, a time was selected for a day
C4_Witness ==
    /\ config.latest_date # NoDate
    /\ verdict.what = "selected"
    /\ attempts = 1

\* C5: once a free day after latest_date was met, no free day is evaluated in
\* the rest of the run
C5_ScanEndsAtLateDay == ~evalAfterLate

\* C6: a day of exclude_dates is never clicked
C6_ExcludedNeverClicked ==
    verdict.what \in ClickedVerdicts => verdict.date \notin config.exclude_dates

\* an excluded free day was met and passed over
C6_Witness == verdict.what = "excluded" /\ verdict.date \in config.exclude_dates

\* C7: a free day before earliest_date whose elements are all on the page is
\* passed over without an attempt and the scan goes on with the next day, the
\* next month table or the pagination
C7_EarlyDaySkipped ==
    [][ ( /\ pc = "day"
          /\ config.earliest_date # NoDate
          /\ TrueDate(free_days[idx].day) < config.earliest_date
          /\ verdict'.what # "no_day" ) =>
          /\ verdict'.what = "early"
          /\ attempts' = attempts
          /\ pc' \in { "day", "scan", "paginate" }
      ]_vars

\* C8: with booking enabled, a run that ends NotFound has scanned no month
\* table with a day that is in range, not excluded and offers a time in a
\* window of its weekday
C8_NoEligibleDayMissed ==
    (outcome = "NotFound" /\ ~args.disable_booking /\ attempts = 0) => ~eligibleSeen

\* C9: the pagination is reached only after both month tables of the page were
\* scanned without an attempt; there, an absent or disabled button ends the run
\* with NotFound and success False, and any other is clicked and the scan
\* starts again at the first month table of the next page
C9_PaginationStep ==
    /\ [](pc = "paginate" => attempts = 0 /\ table = 1 /\ scanned = 2 * (page + 1))
    /\ []((outcome = "NotFound" /\ supPc = "returned") => ~result)
    /\ [][ pc = "paginate" =>
             IF continue_button' \in { "absent", "disabled" }
             THEN pc' = "cleanup" /\ outcome' = "NotFound" /\ ~success' /\ page' = page
             ELSE pc' = "scan" /\ page' = page + 1 /\ table' = 0
       ]_vars

\* the button was clicked and both month tables of the new page were scanned
C9_Witness ==
    /\ pc = "paginate"
    /\ page = 1
    /\ continue_button = "enabled"
    /\ scanned = 4

\* C10: a session left without a reply is resolved: the wait ends no earlier
\* than the timeout, with the updater and the application stopped and None as
\* the result, and the thread waiting in future.result() goes on
C10_TimeoutResolves ==
    /\ []((relayPc = "done" /\ captcha_answer = None) =>
             future = None /\ ~sessionOpen /\ ~listening)
    /\ [][ (relayPc = "polling" /\ relayPc' = "done" /\ captcha_answer = None) =>
             elapsed >= RelayTimeout ]_vars
    /\ (relayPc = "polling") ~> (relayPc = "done" /\ ~sessionOpen /\ ~listening)
    /\ (pc = "wait") ~> (pc # "wait")

\* the wait timed out
C10_Witness ==
    /\ relayPc = "done"
    /\ ENABLE_TELEGRAM
    /\ captcha_answer = None
    /\ elapsed >= RelayTimeout
    /\ pc = "wait"

C13_NoPageActionWhileWaiting ==
    [][ (relayPc \in { "scheduled", "polling" }) =>
          /\ pc \in { "wait", "interrupted" }
          /\ pc' \in { "wait", "interrupted" }
          /\ UNCHANGED << scanVars, bookVars, pageVars, filled, confirmed, attempts >>
      ]_vars

\* the session is open, the clock has moved and run() is still waiting
C13_Witness ==
    /\ pc = "wait"
    /\ relayPc = "polling"
    /\ sessionOpen
    /\ elapsed >= TimeStep

\* C14: after future.result() has returned no answer, the confirmation button
\* is not clicked in that attempt
C14_NoConfirmWithoutAnswer == unanswered => ~confirmed

\* C15: in periodic mode the supervisor has ended normally only after a run
\* that ended in Booked, or with the number of runs at the cap of --tries
C15_StopsOnlyWhenBooked ==
    (config.periodic /\ supPc = "done") =>
        (outcome = "Booked" \/ (args.tries # 0 /\ runs >= args.tries))

\* C16: in periodic mode with --tries N, N > 0, run() is invoked at most N times
C16_AtMostNRuns == (config.periodic /\ args.tries > 0) => runs <= args.tries

\* C17: in non-periodic mode run() is invoked once, the supervisor never
\* sleeps, and when run() has returned, whatever its outcome, the process ends
C17_NonPeriodicOnce ==
    /\ [](~config.periodic => runs <= 1 /\ supPc # "sleeping" /\ tries = 0)
    /\ []((~config.periodic /\ supPc = "done") => runs = 1)
    /\ [][ (~config.periodic /\ supPc = "returned") => supPc' = "done" ]_vars

\* the single run of a non-periodic process ended with a failed booking
C17_Witness ==
    /\ ~config.periodic
    /\ supPc = "done"
    /\ runs = 1
    /\ outcome = "Failed"

\* C18: once a KeyboardInterrupt was delivered the process has ended through
\* its `except KeyboardInterrupt` clause, not with a traceback, run() is not
\* running and is not invoked again
C18_InterruptStopsCleanly ==
    /\ [](outcome = "Interrupted" =>
             supPc = "interrupted" /\ pc \in { "idle", "interrupted" })
    /\ [][ (outcome = "Interrupted") => runs' = runs /\ supPc' = supPc /\ pc' = pc ]_vars

\* the interrupt came while run() was waiting for the reply to a challenge
C18_Witness ==
    /\ outcome = "Interrupted"
    /\ supPc = "interrupted"
    /\ pc = "interrupted"
    /\ relayPc = "polling"
    /\ challenges = 1

\* C19: whenever control is back in __main__ after run(), by return or by an
\* exception, the browser is closed and the event-loop thread has stopped
C19_ReleasedOnEveryExit ==
    supPc \in { "returned", "crashed" } => ~browserOpen /\ ~loopRunning

\* C20: in periodic mode an element missing from a free-day button ends that
\* run() but not the process: the supervisor is still in its loop
C20_MissingElementRetried ==
    (config.periodic /\ verdict.what = "no_day") => supPc # "crashed"

\* C21: with the windows of a configuration file, a clicked day none of whose
\* options lies in a window of its weekday gets no selection, and run() goes on
\* with the next day, the next month table or the pagination
C21_NoSlotContinues ==
    [][ ( /\ pc = "select"
          /\ config.weekdays # << >>
          /\ \A i \in 1..Len(OfferedOptions) :
                ~TimeAllowed(OfferedOptions[i], ClickedWindows, PortalZone) ) =>
          /\ attempts' = attempts
          /\ pc' \in { "day", "scan", "paginate" }
      ]_vars

\* C22: when the process has ended on a KeyboardInterrupt, no telegram
\* application is left started and no updater polling
C22_InterruptClosesSession ==
    supPc = "interrupted" => ~sessionOpen /\ ~listening /\ openSessions = 0

\* C23: an excluded free day that is not the last of its month table is passed
\* over and the next free day of the table is evaluated
C23_ExcludedSkipsOnlyItself ==
    [][ ( /\ pc = "day"
          /\ idx < Len(free_days)
          /\ verdict'.what = "excluded" ) =>
          /\ pc' = "day"
          /\ idx' = idx + 1
          /\ free_days' = free_days
      ]_vars

\* C24: with --earliest-date given and no latest date given, no free day is
\* rejected for being after the latest date
C24_LatestOnlyFromLatest ==
    (args.earliest_date # NoDate /\ args.latest_date = NoDate) => verdict.what # "late"

\* C25: with --disable-booking no day is clicked, no time selected, no session
\* opened and no confirmation clicked, and a run() ends otherwise than by its
\* return with NotFound only when an element is missing from a free-day button
C25_DryRunOnlyScans ==
    args.disable_booking =>
        /\ attempts = 0
        /\ verdict.what \notin ClickedVerdicts
        /\ pc \notin { "select", "challenge", "wait", "confirm" }
        /\ openSessions = 0
        /\ ~confirmed
        /\ supPc = "returned" => outcome = "NotFound" /\ ~result
        /\ pc = "crashed" => verdict.what = "no_day"

\* C26: the confirmation button is clicked only after the button that submits
\* the personal-data form was clicked in the same attempt
C26_UserdataBeforeConfirm == confirmed => userdata_next_clicked

\* C27: a run() that was invoked returns, after one attempt or with the
\* calendar exhausted, unless an element of the page is missing (a free-day
\* button without its day number, or no confirmation button)
C27_RunReturns ==
    (supPc = "running") ~>
        \/ supPc = "returned" /\ (attempts = 1 \/ outcome = "NotFound")
        \/ pc = "crashed" /\ verdict.what \in { "no_day", "selected" }

====
